---- MODULE Spec2Model ----
(***************************************************************************)
(* Model of the span containers and the IOB decoder of                    *)
(* text-extensions-for-pandas:                                            *)
(*   src/pandas_text/token_span.py           TokenSpan, TokenSpanArray    *)
(*   src/text_extensions_for_pandas/io.py    iob_to_spans                 *)
(*                                                                         *)
(* Python sequences are 0-based, TLA+ sequences 1-based: the Python       *)
(* position j of an array is element j + 1 of the sequence that models    *)
(* it.  All offsets, indices and results below are the Python (0-based)   *)
(* numbers.  A raised exception is the record Raise(<exception class>).   *)
(***************************************************************************)
EXTENDS Integers, Sequences, FiniteSets, TLC

VARIABLES
    arrays,            \* the TokenSpanArray objects built so far, in order of construction
    last,              \* the last call on a TokenSpanArray: operation, arguments, outcome
    token_features,    \* iob_to_spans: the input table (tags and the type columns it has)
    entity_type_col_name, \* iob_to_spans: the parameter of that name
    entity_prefixes,   \* iob_to_spans: the active prefixes
    df_list,           \* iob_to_spans: the frames of closed entities, in order of closing
    rounds,            \* iob_to_spans: iterations of the while loop taken so far
    pc,                \* iob_to_spans: position in the function
    result,            \* iob_to_spans: the returned table, or the exception raised
    tensors,           \* the TensorArray objects built so far, in order of construction
    tlast,             \* the last call on a TensorArray: operation, arguments, outcome
    heap,              \* the numpy buffers allocated so far, by address
    objs,              \* the containers that reference buffers of the heap
    hlast,             \* the last call on a container of objs
    readers            \* the threads that read begin / end of arrays[1]: position and locals

vars == <<arrays, last, token_features, entity_type_col_name, entity_prefixes,
          df_list, rounds, pc, result, tensors, tlast, heap, objs, hlast, readers>>

tsaVars == <<arrays, last>>
iobVars == <<token_features, entity_type_col_name, entity_prefixes, df_list,
             rounds, pc, result>>
tensorVars == <<tensors, tlast>>
heapVars == <<heap, objs, hlast>>

\* What a call on a TokenSpanArray, and what iob_to_spans, leaves alone.
nonTsaVars == <<iobVars, tensorVars, heapVars, readers>>
nonIobVars == <<tsaVars, tensorVars, heapVars, readers>>

----------------------------------------------------------------------------
(* Bounds of the model *)

\* Token tables (CharSpanArray objects) that exist; tables 1 and 2 have equal
\* contents and are distinct objects.
NumTables == 3
\* Tokens in the longest token table.
NumToks == 2
\* begin_token / end_token values handed to the constructor range over 0..MaxOff.
MaxOff == 2
\* TokenSpanArray objects constructed in one run.
MaxArrays == 2
\* Rows of all constructed arrays together.
MaxCells == 2
\* Longest index list handed to take.
MaxTake == 2
\* Longest tag column handed to iob_to_spans.
MaxTags == 6
\* Threads that read the derived offsets of one array concurrently.
NumReaders == 2
\* Largest dimension of an ndarray handed to TensorArray.
MaxDim == 3
\* Largest number of dimensions of an ndarray handed to TensorArray.
MaxRank == 2
\* Elements of all TensorArrays built in one run together.
MaxElems == 5
\* Elements of an ndarray range over 0..MaxVal.
MaxVal == 1
\* TensorArray objects constructed in one run.
MaxTensors == 2
\* Longest list of ndarrays handed to TensorArray.
MaxListLen == 2
\* Containers that reference buffers, in one run.
MaxObjs == 2
\* Rows of a container built on fresh buffers.
MaxHeapRows == 2

----------------------------------------------------------------------------
(* Python values *)

None == "None"

\* The outcome of a call: a returned value or a raised exception.
Return(v) == [ok |-> TRUE, val |-> v, err |-> None]
Raise(e) == [ok |-> FALSE, val |-> None, err |-> e]

Min(a, b) == IF a < b THEN a ELSE b

\* All sequences over S of length 0..n.
SeqUpTo(S, n) == UNION {[1..k -> S] : k \in 0..n}

RECURSIVE Flatten(_)
Flatten(ss) == IF ss = <<>> THEN <<>> ELSE Head(ss) \o Flatten(Tail(ss))

----------------------------------------------------------------------------
(* numpy indexing, as the code uses it *)

\* arr[j] for an integer j is defined for -len <= j < len; a negative j
\* counts from the end.
NpInRange(n, j) == -n <= j /\ j < n
NpPos(n, j) == IF j < 0 THEN j + n ELSE j
NpGet(arr, j) == arr[NpPos(Len(arr), j) + 1]

\* arr[indices] and np.take(arr, indices): a gather; one index out of range
\* raises IndexError for the whole call.
NpTake(arr, indices) ==
    IF \A k \in 1..Len(indices) : NpInRange(Len(arr), indices[k])
    THEN Return([k \in 1..Len(indices) |-> NpGet(arr, indices[k])])
    ELSE Raise("IndexError")

\* arr[lo:hi] for 0 <= lo, 0 <= hi: the bounds are clipped to the length.
NpSlice(arr, lo, hi) == SubSeq(arr, Min(lo, Len(arr)) + 1, Min(hi, Len(arr)))

----------------------------------------------------------------------------
(* Token tables: CharSpanArray objects, identified by reference *)

TableIds == 1..NumTables

\* Table t holds NumToks tokens, the last table one fewer.
TableLen(t) == IF t = NumTables /\ NumToks > 1 THEN NumToks - 1 ELSE NumToks

\* Character offsets of token j (0-based) of table t.
TableBegin(t) == [j \in 1..TableLen(t) |-> 10 * (j - 1) + ((t - 1) \div 2)]
TableEnd(t) == [j \in 1..TableLen(t) |-> 10 * (j - 1) + ((t - 1) \div 2) + 3 + j]

\* c.tokens != tokens on two CharSpanArray references: object identity.
TokensNe(a, b) == a /= b

----------------------------------------------------------------------------
(* TokenSpan: one row *)

\* TokenSpan.__init__(tokens, begin_token, end_token)
TokenSpan(tokens, begin_token, end_token) ==
    IF ~NpInRange(TableLen(tokens), begin_token) THEN Raise("IndexError")
    ELSE LET begin_char_off == NpGet(TableBegin(tokens), begin_token) IN
         IF begin_token = end_token
         THEN Return([tokens |-> tokens, begin_token |-> begin_token,
                      end_token |-> end_token,
                      begin |-> begin_char_off, end |-> begin_char_off])
         ELSE IF ~NpInRange(TableLen(tokens), end_token - 1) THEN Raise("IndexError")
         ELSE Return([tokens |-> tokens, begin_token |-> begin_token,
                      end_token |-> end_token,
                      begin |-> begin_char_off,
                      end |-> NpGet(TableEnd(tokens), end_token - 1)])

----------------------------------------------------------------------------
(* TokenSpanArray *)

\* An attribute a memoized property has not set yet, and one it has set to v.
Unset == <<>>
Stored(v) == <<v>>

\* TokenSpanArray.__init__: stores its three arguments.  memo_begin and
\* memo_end are the attributes the memoized properties begin and end set on
\* first access.
TokenSpanArray(tokens, begin_tokens, end_tokens) ==
    Return([tokens |-> tokens, begin_token |-> begin_tokens, end_token |-> end_tokens,
            memo_begin |-> Unset, memo_end |-> Unset])

\* TokenSpanArray.__len__
ArrLen(self) == Len(self.begin_token)

\* GetItemInt with negative indices rejected instead of counted from the end.
GetItemInt_NoNegative(self, item) ==
    IF ~(0 <= item /\ item < ArrLen(self)) THEN Raise("IndexError")
    ELSE TokenSpan(self.tokens, NpGet(self.begin_token, item), NpGet(self.end_token, item))

\* TokenSpanArray.__getitem__ with an int
GetItemInt(self, item) ==
    IF ~NpInRange(ArrLen(self), item) THEN Raise("IndexError")
    ELSE TokenSpan(self.tokens, NpGet(self.begin_token, item), NpGet(self.end_token, item))

\* TokenSpanArray.__getitem__ with a slice lo:hi
GetItemSlice(self, lo, hi) ==
    TokenSpanArray(self.tokens, NpSlice(self.begin_token, lo, hi),
                   NpSlice(self.end_token, lo, hi))

\* ConcatSameType comparing the contents of the token tables, not the references.
ConcatSameType_ByContents(to_concat) ==
    IF Len(to_concat) = 0 THEN Raise("ValueError")
    ELSE LET tokens == to_concat[1].tokens IN
         IF \E k \in 1..Len(to_concat) :
                \/ TableBegin(to_concat[k].tokens) /= TableBegin(tokens)
                \/ TableEnd(to_concat[k].tokens) /= TableEnd(tokens)
         THEN Raise("ValueError")
         ELSE TokenSpanArray(tokens,
                  Flatten([k \in 1..Len(to_concat) |-> to_concat[k].begin_token]),
                  Flatten([k \in 1..Len(to_concat) |-> to_concat[k].end_token]))

\* ConcatSameType with the token ends gathered from the inputs in reverse order.
ConcatSameType_EndsReversed(to_concat) ==
    IF Len(to_concat) = 0 THEN Raise("ValueError")
    ELSE LET tokens == to_concat[1].tokens
             n == Len(to_concat) IN
         IF \E k \in 1..n : TokensNe(to_concat[k].tokens, tokens)
         THEN Raise("ValueError")
         ELSE TokenSpanArray(tokens,
                  Flatten([k \in 1..n |-> to_concat[k].begin_token]),
                  Flatten([k \in 1..n |-> to_concat[n + 1 - k].end_token]))

\* TokenSpanArray._concat_same_type
ConcatSameType(to_concat) ==
    IF Len(to_concat) = 0 THEN Raise("ValueError")
    ELSE LET tokens == to_concat[1].tokens IN
         IF \E k \in 1..Len(to_concat) : TokensNe(to_concat[k].tokens, tokens)
         THEN Raise("ValueError")
         ELSE TokenSpanArray(tokens,
                  Flatten([k \in 1..Len(to_concat) |-> to_concat[k].begin_token]),
                  Flatten([k \in 1..Len(to_concat) |-> to_concat[k].end_token]))

\* TokenSpanArray.copy
CopyArr(self) == TokenSpanArray(self.tokens, self.begin_token, self.end_token)

\* TokenSpanArray.take: the gather both branches make
TakeGather(self, indices) ==
    LET b == NpTake(self.begin_token, indices)
        e == NpTake(self.end_token, indices)
    IN  IF ~b.ok THEN b
        ELSE IF ~e.ok THEN e
        ELSE TokenSpanArray(self.tokens, b.val, e.val)

\* TakeArr whose fill branch lets only strictly positive indices through.
TakeArr_StrictlyPositive(self, indices, allow_fill) ==
    IF allow_fill
    THEN IF \A k \in 1..Len(indices) : indices[k] > 0
         THEN TakeGather(self, indices)
         ELSE Raise("ValueError")
    ELSE TakeGather(self, indices)

\* TakeArr whose fill branch gathers whatever the indices are.
TakeArr_FillIgnored(self, indices, allow_fill) == TakeGather(self, indices)

\* TokenSpanArray.take
TakeArr(self, indices, allow_fill) ==
    IF allow_fill
    THEN IF \A k \in 1..Len(indices) : indices[k] >= 0
         THEN TakeGather(self, indices)
         ELSE Raise("ValueError")
    ELSE TakeGather(self, indices)

\* The body of the property TokenSpanArray.begin
ComputeBegin(self) == NpTake(TableBegin(self.tokens), self.begin_token)

\* ComputeEnd without the replacement of the zero-length rows.
ComputeEnd_NoMask(self, begin) ==
    LET ret == NpTake(TableEnd(self.tokens),
                      [k \in 1..ArrLen(self) |-> self.end_token[k] - 1])
    IN  IF ~ret.ok THEN ret
        ELSE IF ~begin.ok THEN begin
        ELSE ret

\* The body of the property TokenSpanArray.end; begin is the outcome of
\* reading self.begin.
ComputeEnd(self, begin) ==
    LET ret == NpTake(TableEnd(self.tokens),
                      [k \in 1..ArrLen(self) |-> self.end_token[k] - 1])
    IN  IF ~ret.ok THEN ret
        ELSE IF ~begin.ok THEN begin
        ELSE Return([k \in 1..ArrLen(self) |->
                        IF self.end_token[k] = self.begin_token[k]
                        THEN begin.val[k] ELSE ret.val[k]])

\* memoized_property: the stored value when there is one, else the computed one.
Memo(stored, computed) == IF stored /= Unset THEN Return(stored[1]) ELSE computed

\* Reading the property end of self: the outcome, and self afterwards.  The
\* body reads self.begin (which memoizes it) only once the gather of the token
\* ends has succeeded; a raised exception memoizes nothing.
ReadEndOf(self) ==
    IF self.memo_end /= Unset
    THEN [res |-> Return(self.memo_end[1]), self |-> self]
    ELSE LET ret == NpTake(TableEnd(self.tokens),
                           [k \in 1..ArrLen(self) |-> self.end_token[k] - 1])
             begin == Memo(self.memo_begin, ComputeBegin(self))
             res == ComputeEnd(self, begin)
         IN  [res |-> res,
              self |-> [self EXCEPT
                  !.memo_begin = IF ret.ok /\ begin.ok THEN Stored(begin.val) ELSE @,
                  !.memo_end = IF res.ok THEN Stored(res.val) ELSE @]]

\* Reading the property begin of self: the outcome, and self afterwards.
ReadBeginOf(self) ==
    LET res == Memo(self.memo_begin, ComputeBegin(self))
    IN  [res |-> res,
         self |-> [self EXCEPT !.memo_begin = IF res.ok THEN Stored(res.val) ELSE @]]

----------------------------------------------------------------------------
(* The calls a client makes on TokenSpanArrays *)

NoCall == [op |-> "none", self |-> 0, item |-> None, res |-> Return(None)]

TotalRows == Len(Flatten([k \in 1..Len(arrays) |-> arrays[k].begin_token]))

\* TokenSpanArray(tokens, begin_tokens, end_tokens) on raw offset sequences
Construct ==
    /\ Len(arrays) < MaxArrays
    /\ \E tokens \in TableIds, n \in 0..(MaxCells - TotalRows) :
       \E begin_tokens \in [1..n -> 0..MaxOff], end_tokens \in [1..n -> 0..MaxOff] :
          LET res == TokenSpanArray(tokens, begin_tokens, end_tokens) IN
          /\ last' = [op |-> "construct", self |-> 0,
                      item |-> [tokens |-> tokens, begin_tokens |-> begin_tokens,
                                end_tokens |-> end_tokens],
                      res |-> res]
          /\ arrays' = IF res.ok THEN Append(arrays, res.val) ELSE arrays
    /\ UNCHANGED nonTsaVars

\* arrays[i][item] with an int item
GetItem ==
    /\ \E i \in 1..Len(arrays) :
       \E item \in -(ArrLen(arrays[i]) + 1)..ArrLen(arrays[i]) :
          last' = [op |-> "get", self |-> i, item |-> item,
                   res |-> GetItemInt(arrays[i], item)]
    /\ UNCHANGED <<arrays, nonTsaVars>>

\* arrays[i][lo:hi]
Slice ==
    /\ \E i \in 1..Len(arrays) :
       \E lo \in 0..ArrLen(arrays[i]), hi \in 0..(ArrLen(arrays[i]) + 1) :
          last' = [op |-> "slice", self |-> i, item |-> <<lo, hi>>,
                   res |-> GetItemSlice(arrays[i], lo, hi)]
    /\ UNCHANGED <<arrays, nonTsaVars>>

\* TokenSpanArray._concat_same_type([arrays[k] for k in which])
Concat ==
    /\ \E which \in SeqUpTo(1..Len(arrays), MaxArrays) :
          last' = [op |-> "concat", self |-> 0, item |-> which,
                   res |-> ConcatSameType([k \in 1..Len(which) |-> arrays[which[k]]])]
    /\ UNCHANGED <<arrays, nonTsaVars>>

\* arrays[i].take(indices, allow_fill)
Take ==
    /\ \E i \in 1..Len(arrays), allow_fill \in BOOLEAN :
       \E indices \in SeqUpTo(-(ArrLen(arrays[i]) + 1)..ArrLen(arrays[i]), MaxTake) :
          last' = [op |-> "take", self |-> i,
                   item |-> [indices |-> indices, allow_fill |-> allow_fill],
                   res |-> TakeArr(arrays[i], indices, allow_fill)]
    /\ UNCHANGED <<arrays, nonTsaVars>>

\* arrays[i].copy()
Copy ==
    /\ \E i \in 1..Len(arrays) :
          last' = [op |-> "copy", self |-> i, item |-> None,
                   res |-> CopyArr(arrays[i])]
    /\ UNCHANGED <<arrays, nonTsaVars>>

\* arrays[i].begin
ReadBegin ==
    /\ \E i \in 1..Len(arrays) :
          LET r == ReadBeginOf(arrays[i]) IN
          /\ last' = [op |-> "begin", self |-> i, item |-> None, res |-> r.res]
          /\ arrays' = [arrays EXCEPT ![i] = r.self]
    /\ UNCHANGED nonTsaVars

\* arrays[i].end
ReadEnd ==
    /\ \E i \in 1..Len(arrays) :
          LET r == ReadEndOf(arrays[i]) IN
          /\ last' = [op |-> "end", self |-> i, item |-> None, res |-> r.res]
          /\ arrays' = [arrays EXCEPT ![i] = r.self]
    /\ UNCHANGED nonTsaVars

IobIdle ==
    /\ token_features = [tags |-> <<>>, columns |-> {}]
    /\ entity_type_col_name = None
    /\ entity_prefixes = <<>>
    /\ df_list = <<>>
    /\ rounds = 0
    /\ pc = "idle"
    /\ result = Return(None)

\* No TensorArray built yet.
TensorIdle ==
    /\ tensors = <<>>
    /\ tlast = NoCall

\* No buffer allocated yet.
HeapIdle ==
    /\ heap = <<>>
    /\ objs = <<>>
    /\ hlast = NoCall

\* The threads that may read the derived offsets of an array, and a thread
\* that is not inside a property: prop is the property it reads, want the
\* property whose memoized getter it is in, ret and begin the locals of the
\* body of end, val the value a body has returned, res the outcome of its
\* last read.
Threads == 1..NumReaders
IdleReader == [pc |-> "idle", prop |-> None, ret |-> <<>>, begin |-> <<>>,
               val |-> <<>>, res |-> Return(None)]

ReadersIdle == readers = [t \in Threads |-> IdleReader]

Init ==
    /\ arrays = <<>>
    /\ last = NoCall
    /\ IobIdle
    /\ TensorIdle
    /\ HeapIdle
    /\ ReadersIdle

\* A client that builds one array and reads it: rows, slices, copies and the
\* derived character offsets.
ConstructFirst == arrays = <<>> /\ Construct

Next ==
    \/ ConstructFirst
    \/ GetItem
    \/ Slice
    \/ Copy
    \/ ReadBegin
    \/ ReadEnd

Spec == Init /\ [][Next]_vars

\* A client that builds one array and gathers rows from it.
NextTake ==
    \/ ConstructFirst
    \/ Take

SpecTake == Init /\ [][NextTake]_vars

\* A client that builds up to MaxArrays arrays and concatenates them.
NextConcat ==
    \/ Construct
    \/ Concat

SpecConcat == Init /\ [][NextConcat]_vars

----------------------------------------------------------------------------
(* iob_to_spans *)

Tags == {"B", "I", "O"}

\* The columns of token_features that may hold entity types, besides the tag
\* column ent_iob and the token column char_span, which it always has.
TypeColumns == {"ent_type", "label"}

\* The value of column col at row j (0-based) of token_features.
TypeValue(col, j) == <<col, j>>

\* token_features.iloc[indexer][iob_col_name].values for a list of positions:
\* iloc raises IndexError when a position is out of bounds.
IlocTags(tags, indexer) == NpTake(tags, indexer)

\* frame[mask]: the rows of a frame where a boolean mask is True, in order.
RECURSIVE MaskSelect(_, _)
MaskSelect(rows, mask) ==
    IF rows = <<>> THEN <<>>
    ELSE (IF Head(mask) THEN <<Head(rows)>> ELSE <<>>)
            \o MaskSelect(Tail(rows), Tail(mask))

\* 0-based positions 0..n-1 in ascending order.
RECURSIVE Positions(_)
Positions(n) == IF n = 0 THEN <<>> ELSE Append(Positions(n - 1), n - 1)

\* sort_values left out: the rows stay in the order of pd.concat(df_list).
SortValuesBegin_Unsorted(rows) == {rows}

\* all_entities.sort_values("begin"): the default sort is not stable, so any
\* order of the rows with ascending begin may come out.
RECURSIVE SortValuesBegin(_)
SortValuesBegin(rows) ==
    IF rows = <<>> THEN {<<>>}
    ELSE UNION {
            {<<rows[i]>> \o rest :
                rest \in SortValuesBegin(SubSeq(rows, 1, i - 1)
                                         \o SubSeq(rows, i + 1, Len(rows)))}
            : i \in {i \in 1..Len(rows) :
                        \A j \in 1..Len(rows) : rows[i].begin <= rows[j].begin}}

\* The DataFrame iob_to_spans returns: column name -> column.
SpansFrame(col_name, spans, types) ==
    IF col_name = None
    THEN [c \in {"token_span"} |-> spans]
    ELSE [c \in {"token_span", col_name} |-> IF c = "token_span" THEN spans ELSE types]

\* Lines 246-261: the one-token prefixes of all entities.
IobSeed ==
    /\ pc = "start"
    /\ LET tags == token_features.tags
           begin_mask == [j \in 1..Len(tags) |-> tags[j] = "B"]
           first_tokens == MaskSelect(Positions(Len(tags)), begin_mask)
           next_tag == IlocTags(tags, [k \in 1..Len(first_tokens) |-> first_tokens[k] + 1])
       IN  IF "ent_type" \notin token_features.columns
           THEN /\ result' = Raise("KeyError")
                /\ pc' = "done"
                /\ UNCHANGED <<entity_prefixes, df_list>>
           ELSE IF ~next_tag.ok
           THEN /\ result' = next_tag
                /\ pc' = "done"
                /\ UNCHANGED <<entity_prefixes, df_list>>
           ELSE LET prefixes == [k \in 1..Len(first_tokens) |->
                                   [ent_type |-> TypeValue("ent_type", first_tokens[k]),
                                    begin |-> first_tokens[k],
                                    end |-> first_tokens[k] + 1,
                                    next_tag |-> next_tag.val[k]]]
                IN  /\ entity_prefixes' = prefixes
                    /\ df_list' = IF Len(prefixes) = 0 THEN <<prefixes>> ELSE <<>>
                    /\ pc' = "loop"
                    /\ UNCHANGED result
    /\ UNCHANGED <<token_features, entity_type_col_name, rounds, nonIobVars>>

\* Lines 264-272: one iteration of the while loop.
IobRound ==
    /\ pc = "loop"
    /\ Len(entity_prefixes) > 0
    /\ LET complete_mask == [k \in 1..Len(entity_prefixes) |->
                                entity_prefixes[k].next_tag \in {"O", "B"}]
           complete_entities == MaskSelect(entity_prefixes, complete_mask)
           incomplete_entities ==
               MaskSelect(entity_prefixes,
                          [k \in 1..Len(entity_prefixes) |-> ~complete_mask[k]])
           extended == [k \in 1..Len(incomplete_entities) |->
                           [incomplete_entities[k] EXCEPT !.end = @ + 1]]
           next_tag == IlocTags(token_features.tags,
                                [k \in 1..Len(extended) |-> extended[k].end])
       IN  IF ~next_tag.ok
           THEN /\ result' = next_tag
                /\ pc' = "done"
                /\ UNCHANGED <<entity_prefixes, df_list, rounds>>
           ELSE /\ df_list' = Append(df_list, complete_entities)
                /\ entity_prefixes' = [k \in 1..Len(extended) |->
                                          [extended[k] EXCEPT !.next_tag = next_tag.val[k]]]
                /\ rounds' = rounds + 1
                /\ UNCHANGED <<pc, result>>
    /\ UNCHANGED <<token_features, entity_type_col_name, nonIobVars>>

\* Lines 273-289: the closed entities, sorted by begin, as a DataFrame.
IobFinish ==
    /\ pc = "loop"
    /\ Len(entity_prefixes) = 0
    /\ \E all_entities \in SortValuesBegin(Flatten(df_list)) :
          LET entity_spans_array ==
                  TokenSpanArray("char_span",
                                 [k \in 1..Len(all_entities) |-> all_entities[k].begin],
                                 [k \in 1..Len(all_entities) |-> all_entities[k].end])
          IN  result' = Return(SpansFrame(entity_type_col_name, entity_spans_array.val,
                                   [k \in 1..Len(all_entities) |-> all_entities[k].ent_type]))
    /\ pc' = "done"
    /\ UNCHANGED <<token_features, entity_type_col_name, entity_prefixes, df_list,
                   rounds, nonIobVars>>

\* A call of iob_to_spans on a table of up to MaxTags tokens; the parameter
\* entity_type_col_name names a column of the table or is None.
InitIob ==
    /\ arrays = <<>>
    /\ last = NoCall
    /\ TensorIdle
    /\ HeapIdle
    /\ ReadersIdle
    /\ token_features \in [tags : SeqUpTo(Tags, MaxTags), columns : SUBSET TypeColumns]
    /\ entity_type_col_name \in token_features.columns \cup {None}
    /\ entity_prefixes = <<>>
    /\ df_list = <<>>
    /\ rounds = 0
    /\ pc = "start"
    /\ result = Return(None)

NextIob ==
    \/ IobSeed
    \/ IobRound
    \/ IobFinish

SpecIob == InitIob /\ [][NextIob]_vars

----------------------------------------------------------------------------
(* numpy arrays of any rank, as TensorArray uses them *)

\* The values TensorArray.__init__ tells apart: a numpy.ndarray (shape and
\* elements in row-major order), a list, a generator and a bool.
NdArray(shape, data) == [kind |-> "ndarray", shape |-> shape, data |-> data]
PyList(items) == [kind |-> "list", items |-> items]
Generator(items) == [kind |-> "generator", items |-> items]
PyBool(b) == [kind |-> "bool", val |-> b]

\* Number of elements of an array of a shape.
RECURSIVE Prod(_)
Prod(shape) == IF shape = <<>> THEN 1 ELSE Head(shape) * Prod(Tail(shape))

\* The shapes and arrays a client hands over.
Shapes == {sh \in UNION {[1..r -> 1..MaxDim] : r \in 1..MaxRank} : Prod(sh) <= MaxElems}
NdArrays == UNION {{NdArray(sh, d) : d \in [1..Prod(sh) -> 0..MaxVal]} : sh \in Shapes}

\* The multi-index of flat position p (0-based) in an array of a shape, and
\* the flat position of a multi-index.
Unravel(shape, p) ==
    [i \in 1..Len(shape) |->
        (p \div Prod(SubSeq(shape, i + 1, Len(shape)))) % shape[i]]
RECURSIVE Ravel(_, _)
Ravel(shape, idx) ==
    IF shape = <<>> THEN 0
    ELSE Head(idx) * Prod(Tail(shape)) + Ravel(Tail(shape), Tail(idx))

Max(a, b) == IF a > b THEN a ELSE b

\* numpy broadcasting: the shapes are aligned at their last dimension, a
\* missing dimension counts as 1, and two dimensions are compatible when
\* they are equal or one of them is 1.
DimAt(shape, rank, i) ==
    IF i > rank - Len(shape) THEN shape[i - (rank - Len(shape))] ELSE 1
BroadcastOk(sa, sb) ==
    LET rank == Max(Len(sa), Len(sb)) IN
    \A i \in 1..rank :
        \/ DimAt(sa, rank, i) = DimAt(sb, rank, i)
        \/ DimAt(sa, rank, i) = 1
        \/ DimAt(sb, rank, i) = 1
BroadcastShape(sa, sb) ==
    LET rank == Max(Len(sa), Len(sb)) IN
    [i \in 1..rank |-> IF DimAt(sa, rank, i) = 1 THEN DimAt(sb, rank, i)
                       ELSE DimAt(sa, rank, i)]

\* The element of a that takes part at flat position p of a result of shape
\* rshape: a dimension of size 1 of a is repeated.
BroadcastGet(a, rshape, p) ==
    LET idx == Unravel(rshape, p)
        off == Len(rshape) - Len(a.shape)
        ia == [i \in 1..Len(a.shape) |-> IF a.shape[i] = 1 THEN 0 ELSE idx[i + off]]
    IN  a.data[Ravel(a.shape, ia) + 1]

CompareOps == {"eq", "lt", "gt", "le", "ge"}

Cmp(op, x, y) ==
    CASE op = "eq" -> x = y
      [] op = "lt" -> x < y
      [] op = "gt" -> x > y
      [] op = "le" -> x <= y
      [] op = "ge" -> x >= y

\* a <op> b on two ndarrays: the outcomes a numpy build can produce.  Shapes
\* that broadcast give the elementwise result in the broadcast shape.  Shapes
\* that do not broadcast raise ValueError, except that == gives the scalar
\* False in the numpy releases that only warn about it.
NpCompare(op, a, b) ==
    IF BroadcastOk(a.shape, b.shape)
    THEN LET rshape == BroadcastShape(a.shape, b.shape) IN
         {Return(NdArray(rshape,
                  [p \in 1..Prod(rshape) |->
                      Cmp(op, BroadcastGet(a, rshape, p - 1),
                              BroadcastGet(b, rshape, p - 1))]))}
    ELSE IF op = "eq" THEN {Raise("ValueError"), Return(PyBool(FALSE))}
    ELSE {Raise("ValueError")}

\* np.stack(values, axis=0): the arrays must be at least one and of one shape.
NpStack(items) ==
    IF Len(items) = 0 THEN Raise("ValueError")
    ELSE IF \E k \in 1..Len(items) : items[k].shape /= items[1].shape
    THEN Raise("ValueError")
    ELSE Return(NdArray(<<Len(items)>> \o items[1].shape,
                        Flatten([k \in 1..Len(items) |-> items[k].data])))

\* ndarray.take(indices, axis=0): a gather of rows; one index out of range
\* raises IndexError.
NpTakeRows(a, indices) ==
    LET n == a.shape[1]
        row_size == Prod(Tail(a.shape))
        row(j) == SubSeq(a.data, NpPos(n, j) * row_size + 1, (NpPos(n, j) + 1) * row_size)
    IN  IF \A k \in 1..Len(indices) : NpInRange(n, indices[k])
        THEN Return(NdArray(<<Len(indices)>> \o Tail(a.shape),
                            Flatten([k \in 1..Len(indices) |-> row(indices[k])])))
        ELSE Raise("IndexError")

----------------------------------------------------------------------------
(* TensorArray *)

\* TensorArray.__init__(values): a Sequence is stacked, an ndarray is kept,
\* anything else raises TypeError.  np.ascontiguousarray changes the layout
\* in memory, not the shape or the elements.
TensorArray(values) ==
    IF values.kind = "list"
    THEN LET stacked == NpStack(values.items) IN
         IF stacked.ok THEN Return([_tensor |-> stacked.val]) ELSE stacked
    ELSE IF values.kind = "ndarray"
    THEN Return([_tensor |-> values])
    ELSE Raise("TypeError")

\* TensorArray.__len__
TensorLen(self) == self._tensor.shape[1]

\* TensorArray.__eq__, __lt__, __gt__, __le__, __ge__: the outcomes of
\* TensorArray(self._tensor <op> other._tensor).
TensorCompare(op, self, other) ==
    {IF r.ok THEN TensorArray(r.val) ELSE r :
        r \in NpCompare(op, self._tensor, other._tensor)}

\* TensorArray._concat_same_type: the constructor is handed a generator.
TensorConcatSameType(to_concat) ==
    TensorArray(Generator([k \in 1..Len(to_concat) |-> to_concat[k]._tensor]))

\* TensorArray.take
TensorTake(self, indices, allow_fill, fill_value) ==
    IF allow_fill THEN Raise("NotImplementedError")
    ELSE IF fill_value /= None THEN Raise("NotImplementedError")
    ELSE LET values == NpTakeRows(self._tensor, indices) IN
         IF values.ok THEN TensorArray(values.val) ELSE values

----------------------------------------------------------------------------
(* The calls a client makes on TensorArrays *)

\* Elements of all TensorArrays built so far.
TensorElems == Len(Flatten([k \in 1..Len(tensors) |-> tensors[k]._tensor.data]))

\* The fill_value arguments a client passes to take.
FillValues == {None, "nan"}

\* TensorArray(values) on an ndarray
TensorConstruct ==
    /\ Len(tensors) < MaxTensors
    /\ \E values \in NdArrays :
          /\ Prod(values.shape) <= MaxElems - TensorElems
          /\ LET res == TensorArray(values) IN
             /\ tlast' = [op |-> "construct", self |-> 0, item |-> values, res |-> res]
             /\ tensors' = IF res.ok THEN Append(tensors, res.val) ELSE tensors
    /\ UNCHANGED <<tsaVars, iobVars, heapVars, readers>>

\* TensorArray(values) on a list of ndarrays, as the first call of a run
TensorConstructList ==
    /\ tensors = <<>>
    /\ tlast.op = "none"
    /\ \E items \in SeqUpTo(NdArrays, MaxListLen) :
          /\ Len(Flatten([k \in 1..Len(items) |-> items[k].data])) <= MaxElems
          /\ LET res == TensorArray(PyList(items)) IN
             /\ tlast' = [op |-> "construct", self |-> 0, item |-> PyList(items),
                          res |-> res]
             /\ tensors' = IF res.ok THEN Append(tensors, res.val) ELSE tensors
    /\ UNCHANGED <<tsaVars, iobVars, heapVars, readers>>

\* tensors[i] <op> tensors[j]
TensorCompareOp ==
    /\ \E i \in 1..Len(tensors), j \in 1..Len(tensors), op \in CompareOps :
       \E res \in TensorCompare(op, tensors[i], tensors[j]) :
          tlast' = [op |-> op, self |-> i, item |-> j, res |-> res]
    /\ UNCHANGED <<tensors, tsaVars, iobVars, heapVars, readers>>

\* TensorArray._concat_same_type([tensors[k] for k in which])
TensorConcat ==
    /\ \E which \in SeqUpTo(1..Len(tensors), MaxTensors) :
          tlast' = [op |-> "concat", self |-> 0, item |-> which,
                    res |-> TensorConcatSameType([k \in 1..Len(which) |-> tensors[which[k]]])]
    /\ UNCHANGED <<tensors, tsaVars, iobVars, heapVars, readers>>

\* tensors[i].take(indices, allow_fill, fill_value)
TensorTakeOp ==
    /\ \E i \in 1..Len(tensors), allow_fill \in BOOLEAN, fill_value \in FillValues :
       \E indices \in SeqUpTo(-(TensorLen(tensors[i]) + 1)..TensorLen(tensors[i]), MaxTake) :
          tlast' = [op |-> "take", self |-> i,
                    item |-> [indices |-> indices, allow_fill |-> allow_fill,
                              fill_value |-> fill_value],
                    res |-> TensorTake(tensors[i], indices, allow_fill, fill_value)]
    /\ UNCHANGED <<tensors, tsaVars, iobVars, heapVars, readers>>

\* A client that builds up to MaxTensors arrays, compares and concatenates them.
NextTensor ==
    \/ TensorConstruct
    \/ TensorConstructList
    \/ TensorCompareOp
    \/ TensorConcat

SpecTensor == Init /\ [][NextTensor]_vars

\* A client that builds one array and gathers rows from it.
TensorConstructFirst == tensors = <<>> /\ tlast.op = "none" /\ TensorConstruct

NextTensorTake ==
    \/ TensorConstructFirst
    \/ TensorConstructList
    \/ TensorTakeOp

SpecTensorTake == Init /\ [][NextTensorTake]_vars

----------------------------------------------------------------------------
(* Containers and the numpy buffers they reference: copy and aliasing *)

\* A buffer is the memory of a numpy array; heap[a] is the content of the
\* buffer at address a, an ndarray value.  A container holds the addresses
\* of its buffers; copy_of is the container it was copied from (0: none),
\* kept for the statement of the properties.
SpansObj(tokens, begin_addr, end_addr, src) ==
    [kind |-> "TokenSpanArray", tokens |-> tokens, begin_token |-> begin_addr,
     end_token |-> end_addr, _tensor |-> 0, copy_of |-> src]
TensorObj(addr, src) ==
    [kind |-> "TensorArray", tokens |-> 0, begin_token |-> 0, end_token |-> 0,
     _tensor |-> addr, copy_of |-> src]

\* The addresses a container references.
Addrs(o) == IF o.kind = "TokenSpanArray" THEN {o.begin_token, o.end_token}
            ELSE {o._tensor}

\* TokenSpanArray.copy without the two .copy() calls: the new container
\* references the buffers of the source.
CopyOnHeap_Aliased(h, self, src) ==
    IF self.kind = "TokenSpanArray"
    THEN [heap |-> h,
          obj |-> SpansObj(self.tokens, self.begin_token, self.end_token, src)]
    ELSE [heap |-> Append(h, h[self._tensor]),
          obj |-> TensorObj(Len(h) + 1, src)]

\* TokenSpanArray.copy and TensorArray.copy of the container self (the
\* container number src): ndarray.copy() allocates a buffer with the
\* content of its source; the tokens reference is handed on as it is.
CopyOnHeap(h, self, src) ==
    IF self.kind = "TokenSpanArray"
    THEN [heap |-> h \o <<h[self.begin_token], h[self.end_token]>>,
          obj |-> SpansObj(self.tokens, Len(h) + 1, Len(h) + 2, src)]
    ELSE [heap |-> Append(h, h[self._tensor]),
          obj |-> TensorObj(Len(h) + 1, src)]

\* self[:], a slice of all rows: numpy basic slicing gives views, so the new
\* container references the buffers of self.
ViewOnHeap(h, self) ==
    IF self.kind = "TokenSpanArray"
    THEN [heap |-> h,
          obj |-> SpansObj(self.tokens, self.begin_token, self.end_token, 0)]
    ELSE [heap |-> h, obj |-> TensorObj(self._tensor, 0)]

\* buffer[k] = v (k 0-based) on the buffer at an address.
StoreOnHeap(h, addr, k, v) == [h EXCEPT ![addr].data[k + 1] = v]

\* Number of elements of the buffer at an address.
BufSize(h, addr) == Len(h[addr].data)

\* TokenSpanArray(tokens, begin_tokens, end_tokens) on two fresh offset arrays
HeapNewSpans ==
    /\ objs = <<>>
    /\ \E tokens \in TableIds, n \in 0..MaxHeapRows :
       \E begin_tokens \in [1..n -> 0..MaxVal], end_tokens \in [1..n -> 0..MaxVal] :
          /\ heap' = heap \o <<NdArray(<<n>>, begin_tokens), NdArray(<<n>>, end_tokens)>>
          /\ objs' = Append(objs, SpansObj(tokens, Len(heap) + 1, Len(heap) + 2, 0))
          /\ hlast' = [op |-> "construct", self |-> 0, item |-> None,
                       res |-> Return(Len(objs) + 1)]
    /\ UNCHANGED <<tsaVars, iobVars, tensorVars, readers>>

\* TensorArray(values) on a fresh ndarray
HeapNewTensor ==
    /\ objs = <<>>
    /\ \E values \in {a \in NdArrays : Prod(a.shape) <= MaxHeapRows} :
          /\ heap' = Append(heap, values)
          /\ objs' = Append(objs, TensorObj(Len(heap) + 1, 0))
          /\ hlast' = [op |-> "construct", self |-> 0, item |-> None,
                       res |-> Return(Len(objs) + 1)]
    /\ UNCHANGED <<tsaVars, iobVars, tensorVars, readers>>

\* objs[i].copy()
HeapCopy ==
    /\ Len(objs) < MaxObjs
    /\ \E i \in 1..Len(objs) :
          LET r == CopyOnHeap(heap, objs[i], i) IN
          /\ heap' = r.heap
          /\ objs' = Append(objs, r.obj)
          /\ hlast' = [op |-> "copy", self |-> i, item |-> None,
                       res |-> Return(Len(objs) + 1)]
    /\ UNCHANGED <<tsaVars, iobVars, tensorVars, readers>>

\* objs[i][:]
HeapView ==
    /\ Len(objs) < MaxObjs
    /\ \E i \in 1..Len(objs) :
          LET r == ViewOnHeap(heap, objs[i]) IN
          /\ heap' = r.heap
          /\ objs' = Append(objs, r.obj)
          /\ hlast' = [op |-> "view", self |-> i, item |-> None,
                       res |-> Return(Len(objs) + 1)]
    /\ UNCHANGED <<tsaVars, iobVars, tensorVars, readers>>

\* A client replaces one element of an array it got from objs[i]:
\* objs[i].begin_token[k] = v, objs[i].end_token[k] = v or
\* objs[i].to_numpy()[k] = v.
HeapSetItem ==
    /\ \E i \in 1..Len(objs) :
       \E addr \in Addrs(objs[i]), v \in 0..MaxVal :
       \E k \in 0..(BufSize(heap, addr) - 1) :
          /\ heap' = StoreOnHeap(heap, addr, k, v)
          /\ hlast' = [op |-> "setitem", self |-> i, item |-> <<addr, k, v>>,
                       res |-> Return(None)]
    /\ UNCHANGED <<objs, tsaVars, iobVars, tensorVars, readers>>

\* A client that builds one container, copies or slices it and replaces
\* elements of the arrays of either.
NextHeap ==
    \/ HeapNewSpans
    \/ HeapNewTensor
    \/ HeapCopy
    \/ HeapView
    \/ HeapSetItem

SpecHeap == Init /\ [][NextHeap]_vars

----------------------------------------------------------------------------
(* Threads that read begin and end of arrays[1] concurrently *)

\* memoized_property wraps the body of a property as
\*     if not hasattr(self, attr_name): setattr(self, attr_name, fget(self))
\*     return getattr(self, attr_name)
\* A thread can be preempted between any two of these attribute accesses and
\* inside the body; one access is one step.

\* The body of end with the zero-length rows left as gathered.
MaskAssign_Skipped(self, ret, begin) == ret

\* ret[mask] = self.begin[mask] with mask = (end_token == begin_token), on
\* the local array ret of the body of end.
MaskAssign(self, ret, begin) ==
    [k \in 1..Len(ret) |->
        IF self.end_token[k] = self.begin_token[k] THEN begin[k] ELSE ret[k]]

\* ret = self._tokens.end[self.end_token - 1]: a gather into a fresh array.
GatherEnds(self) ==
    NpTake(TableEnd(self.tokens), [k \in 1..ArrLen(self) |-> self.end_token[k] - 1])

\* Thread t moves to `to`; `with` gives the locals that change.
Goto(t, to, with) ==
    readers' = [readers EXCEPT ![t] = [f \in DOMAIN with \cup DOMAIN @ |->
                    IF f = "pc" THEN to
                    ELSE IF f \in DOMAIN with THEN with[f] ELSE @[f]]]

NoLocals == [x \in {} |-> 0]

\* Thread t reads arrays[1].begin or arrays[1].end.
ReaderCall(t) ==
    /\ Len(arrays) > 0
    /\ readers[t].pc \in {"idle", "done"}
    /\ \E prop \in {"begin", "end"} :
          readers' = [readers EXCEPT ![t] =
                         [IdleReader EXCEPT !.prop = prop, !.pc = prop \o "_hasattr"]]
    /\ UNCHANGED <<tsaVars, iobVars, tensorVars, heapVars>>

\* end: if not hasattr(self, "_end")
EndHasAttr(t) ==
    /\ readers[t].pc = "end_hasattr"
    /\ IF arrays[1].memo_end /= Unset
       THEN Goto(t, "end_getattr", NoLocals)
       ELSE Goto(t, "end_gather", NoLocals)
    /\ UNCHANGED <<tsaVars, iobVars, tensorVars, heapVars>>

\* end, line 212: the gather of the token ends; an exception leaves the property.
EndGather(t) ==
    /\ readers[t].pc = "end_gather"
    /\ LET ret == GatherEnds(arrays[1]) IN
       IF ret.ok THEN Goto(t, "begin_hasattr", [ret |-> ret.val])
       ELSE Goto(t, "done", [res |-> ret])
    /\ UNCHANGED <<tsaVars, iobVars, tensorVars, heapVars>>

\* begin: if not hasattr(self, "_begin")
BeginHasAttr(t) ==
    /\ readers[t].pc = "begin_hasattr"
    /\ IF arrays[1].memo_begin /= Unset
       THEN Goto(t, "begin_getattr", NoLocals)
       ELSE Goto(t, "begin_body", NoLocals)
    /\ UNCHANGED <<tsaVars, iobVars, tensorVars, heapVars>>

\* begin, line 204: the body; an exception leaves the property, and end too
\* when end is what the thread reads.
BeginBody(t) ==
    /\ readers[t].pc = "begin_body"
    /\ LET val == ComputeBegin(arrays[1]) IN
       IF val.ok THEN Goto(t, "begin_setattr", [val |-> val.val])
       ELSE Goto(t, "done", [res |-> val])
    /\ UNCHANGED <<tsaVars, iobVars, tensorVars, heapVars>>

\* begin: setattr(self, "_begin", <value of the body>)
BeginSetAttr(t) ==
    /\ readers[t].pc = "begin_setattr"
    /\ arrays' = [arrays EXCEPT ![1].memo_begin = Stored(readers[t].val)]
    /\ Goto(t, "begin_getattr", NoLocals)
    /\ UNCHANGED <<last, iobVars, tensorVars, heapVars>>

\* begin: return getattr(self, "_begin"), to the caller or to line 216 of end
BeginGetAttr(t) ==
    /\ readers[t].pc = "begin_getattr"
    /\ IF readers[t].prop = "begin"
       THEN Goto(t, "done", [res |-> Return(arrays[1].memo_begin[1])])
       ELSE Goto(t, "end_assign", [begin |-> arrays[1].memo_begin[1]])
    /\ UNCHANGED <<tsaVars, iobVars, tensorVars, heapVars>>

\* end, lines 215-217: the zero-length rows of ret get their begin; return ret
EndAssign(t) ==
    /\ readers[t].pc = "end_assign"
    /\ Goto(t, "end_setattr",
            [val |-> MaskAssign(arrays[1], readers[t].ret, readers[t].begin)])
    /\ UNCHANGED <<tsaVars, iobVars, tensorVars, heapVars>>

\* end: setattr(self, "_end", <value of the body>)
EndSetAttr(t) ==
    /\ readers[t].pc = "end_setattr"
    /\ arrays' = [arrays EXCEPT ![1].memo_end = Stored(readers[t].val)]
    /\ Goto(t, "end_getattr", NoLocals)
    /\ UNCHANGED <<last, iobVars, tensorVars, heapVars>>

\* end: return getattr(self, "_end")
EndGetAttr(t) ==
    /\ readers[t].pc = "end_getattr"
    /\ Goto(t, "done", [res |-> Return(arrays[1].memo_end[1])])
    /\ UNCHANGED <<tsaVars, iobVars, tensorVars, heapVars>>

\* One array, read by NumReaders threads in any interleaving.
NextReaders ==
    \/ ConstructFirst
    \/ \E t \in Threads : ReaderCall(t)
    \/ \E t \in Threads : EndHasAttr(t)
    \/ \E t \in Threads : EndGather(t)
    \/ \E t \in Threads : BeginHasAttr(t)
    \/ \E t \in Threads : BeginBody(t)
    \/ \E t \in Threads : BeginSetAttr(t)
    \/ \E t \in Threads : BeginGetAttr(t)
    \/ \E t \in Threads : EndAssign(t)
    \/ \E t \in Threads : EndSetAttr(t)
    \/ \E t \in Threads : EndGetAttr(t)

SpecReaders == Init /\ [][NextReaders]_vars

----------------------------------------------------------------------------
(* Properties of TokenSpanArray *)

\* The invariant of the data model on one array: 0 <= begin_token[i] <=
\* end_token[i] <= len(tokens) for every row i.
ValidArr(a) ==
    \A k \in 1..ArrLen(a) :
        /\ 0 <= a.begin_token[k]
        /\ a.begin_token[k] <= a.end_token[k]
        /\ a.end_token[k] <= TableLen(a.tokens)

\* Every begin_token of the array is the index of a token.
BeginsAreTokens(a) == \A k \in 1..ArrLen(a) : a.begin_token[k] < TableLen(a.tokens)

\* The derived character offsets of row k (1-based) of a, as the data model
\* states them.
CharBegin(a, k) == TableBegin(a.tokens)[a.begin_token[k] + 1]
CharEnd(a, k) ==
    IF a.end_token[k] > a.begin_token[k]
    THEN TableEnd(a.tokens)[a.end_token[k]]
    ELSE CharBegin(a, k)

\* The array of the last call, and the row (1-based) an int item selects in it.
LastSelf == arrays[last.self]
LastRow == NpPos(ArrLen(LastSelf), last.item) + 1

\* C1 as stated: on every array that satisfies the invariant of the data
\* model, reading begin and end (and the offsets of a single row) succeeds
\* and gives begin[i] = tokens.begin[begin_token[i]], end[i] =
\* tokens.end[end_token[i] - 1] when end_token[i] > begin_token[i] and
\* end[i] = begin[i] otherwise.
C1_AsStated ==
    /\ (last.op = "begin" /\ ValidArr(LastSelf)) =>
          /\ last.res.ok
          /\ Len(last.res.val) = ArrLen(LastSelf)
          /\ \A k \in 1..ArrLen(LastSelf) : last.res.val[k] = CharBegin(LastSelf, k)
    /\ (last.op = "end" /\ ValidArr(LastSelf)) =>
          /\ last.res.ok
          /\ Len(last.res.val) = ArrLen(LastSelf)
          /\ \A k \in 1..ArrLen(LastSelf) : last.res.val[k] = CharEnd(LastSelf, k)
    /\ (last.op = "get" /\ ValidArr(LastSelf)
            /\ 0 <= last.item /\ last.item < ArrLen(LastSelf)) =>
          /\ last.res.ok
          /\ last.res.val.begin = CharBegin(LastSelf, LastRow)
          /\ last.res.val.end = CharEnd(LastSelf, LastRow)

\* C1 (amended): on every array that satisfies the invariant of the data model
\* and whose begin_token values are all smaller than len(tokens), reading
\* begin and end succeeds and gives begin[i] = tokens.begin[begin_token[i]],
\* end[i] = tokens.end[end_token[i] - 1] when end_token[i] > begin_token[i]
\* and end[i] = begin[i] otherwise (begin_token[i] = end_token[i] = 0
\* included); a single row read with an index in [0, n) has the same offsets.
\* On an array with a row begin_token[i] = end_token[i] = len(tokens) both
\* reads raise IndexError.
C1_DerivedOffsets ==
    /\ (last.op = "begin" /\ ValidArr(LastSelf) /\ BeginsAreTokens(LastSelf)) =>
          /\ last.res.ok
          /\ Len(last.res.val) = ArrLen(LastSelf)
          /\ \A k \in 1..ArrLen(LastSelf) : last.res.val[k] = CharBegin(LastSelf, k)
    /\ (last.op = "end" /\ ValidArr(LastSelf) /\ BeginsAreTokens(LastSelf)) =>
          /\ last.res.ok
          /\ Len(last.res.val) = ArrLen(LastSelf)
          /\ \A k \in 1..ArrLen(LastSelf) : last.res.val[k] = CharEnd(LastSelf, k)
    /\ (last.op = "get" /\ ValidArr(LastSelf) /\ BeginsAreTokens(LastSelf)
            /\ 0 <= last.item /\ last.item < ArrLen(LastSelf)) =>
          /\ last.res.ok
          /\ last.res.val.begin = CharBegin(LastSelf, LastRow)
          /\ last.res.val.end = CharEnd(LastSelf, LastRow)
    /\ (last.op \in {"begin", "end"} /\ ValidArr(LastSelf) /\ ~BeginsAreTokens(LastSelf)) =>
          last.res = Raise("IndexError")

\* C1's case: end read on a valid array that has a zero-length row at token 0
\* and a row of at least one token.
C1_Witness ==
    /\ last.op = "end"
    /\ ValidArr(LastSelf) /\ BeginsAreTokens(LastSelf)
    /\ \E k \in 1..ArrLen(LastSelf) :
          LastSelf.begin_token[k] = 0 /\ LastSelf.end_token[k] = 0
    /\ \E k \in 1..ArrLen(LastSelf) : LastSelf.end_token[k] > LastSelf.begin_token[k]
    /\ last.res.ok

\* C2 as stated: the constructor raises when a row violates begin_token[i] <=
\* end_token[i] <= len(tokens), so every array that exists satisfies the
\* invariant of the data model.
C2_ConstructorValidates ==
    /\ (last.op = "construct"
          /\ \E k \in 1..Len(last.item.begin_tokens) :
                ~(/\ last.item.begin_tokens[k] <= last.item.end_tokens[k]
                  /\ last.item.end_tokens[k] <= TableLen(last.item.tokens)))
       => ~last.res.ok
    /\ \A i \in 1..Len(arrays) : ValidArr(arrays[i])

\* The arrays handed to the last concat, in order.
LastConcat == [k \in 1..Len(last.item) |-> arrays[last.item[k]]]

\* C3: concat raises ValueError (IncompatibleConcat) when the input list is
\* empty and whenever some input's tokens reference is not the same object as
\* the first input's, equal contents or not; it succeeds exactly when the list
\* is not empty and all inputs share one tokens reference.
C3_ConcatIdentity ==
    last.op = "concat" =>
        IF \/ Len(LastConcat) = 0
           \/ \E k \in 1..Len(LastConcat) : LastConcat[k].tokens /= LastConcat[1].tokens
        THEN last.res = Raise("ValueError")
        ELSE last.res.ok

\* C3's case: two arrays over distinct token tables of equal contents are
\* concatenated, and the call raises.
C3_Witness ==
    /\ last.op = "concat"
    /\ Len(LastConcat) = 2
    /\ LastConcat[1].tokens /= LastConcat[2].tokens
    /\ TableBegin(LastConcat[1].tokens) = TableBegin(LastConcat[2].tokens)
    /\ TableEnd(LastConcat[1].tokens) = TableEnd(LastConcat[2].tokens)
    /\ last.res = Raise("ValueError")

\* C4: for arrays A and B over one tokens reference, C = concat([A, B])
\* succeeds, has len(A) + len(B) rows, C[0:len(A)] equals A and
\* C[len(A):len(C)] equals B row for row in begin_token and end_token, and C
\* references the tokens object of A and B.
C4_ConcatRoundTrip ==
    (/\ last.op = "concat"
     /\ Len(LastConcat) = 2
     /\ LastConcat[1].tokens = LastConcat[2].tokens) =>
        LET A == LastConcat[1]
            B == LastConcat[2]
        IN  /\ last.res.ok
            /\ ArrLen(last.res.val) = ArrLen(A) + ArrLen(B)
            /\ Len(last.res.val.end_token) = ArrLen(A) + ArrLen(B)
            /\ last.res.val.tokens = A.tokens
            /\ LET head == GetItemSlice(last.res.val, 0, ArrLen(A))
                   tail == GetItemSlice(last.res.val, ArrLen(A), ArrLen(last.res.val))
               IN  /\ head.ok /\ tail.ok
                   /\ head.val.begin_token = A.begin_token
                   /\ head.val.end_token = A.end_token
                   /\ head.val.tokens = A.tokens
                   /\ tail.val.begin_token = B.begin_token
                   /\ tail.val.end_token = B.end_token
                   /\ tail.val.tokens = B.tokens

\* C4's case: two non-empty arrays with different rows over one token table
\* are concatenated.
C4_Witness ==
    /\ last.op = "concat"
    /\ Len(LastConcat) = 2
    /\ LastConcat[1].tokens = LastConcat[2].tokens
    /\ ArrLen(LastConcat[1]) > 0 /\ ArrLen(LastConcat[2]) > 0
    /\ LastConcat[1].end_token /= LastConcat[2].end_token
    /\ LastConcat[1].begin_token /= LastConcat[2].begin_token
    /\ last.res.ok

\* The rows a list of indices in [0, n) selects from a, in order.
RowsAt(seq, indices) == [k \in 1..Len(indices) |-> seq[indices[k] + 1]]

\* C5: with every index in [0, n), take(indices, allow_fill=True) and
\* take(indices, allow_fill=False) both return the rows indices names, in
\* that order, over the tokens reference of the source: the same result.
C5_TakeFillPlainGather ==
    (/\ last.op = "take"
     /\ \A k \in 1..Len(last.item.indices) :
           0 <= last.item.indices[k] /\ last.item.indices[k] < ArrLen(LastSelf)) =>
        /\ last.res.ok
        /\ last.res.val.tokens = LastSelf.tokens
        /\ last.res.val.begin_token = RowsAt(LastSelf.begin_token, last.item.indices)
        /\ last.res.val.end_token = RowsAt(LastSelf.end_token, last.item.indices)
        /\ last.res = TakeArr(LastSelf, last.item.indices, ~last.item.allow_fill)

\* C5's case: take with allow_fill=True and two indices in [0, n), index 0
\* among them and not in ascending order, on an array whose rows differ.
C5_Witness ==
    /\ last.op = "take"
    /\ last.item.allow_fill
    /\ last.item.indices = <<1, 0>>
    /\ ArrLen(LastSelf) = 2
    /\ <<LastSelf.begin_token[1], LastSelf.end_token[1]>>
          /= <<LastSelf.begin_token[2], LastSelf.end_token[2]>>
    /\ last.res.ok

\* C6, the outcomes: take with allow_fill=True and a negative index raises
\* ValueError (UnsupportedFill); take with allow_fill=False and indices in
\* [-n, n) succeeds and a negative index -k selects row n - k.
C6_TakeOutcomes ==
    /\ (/\ last.op = "take"
        /\ last.item.allow_fill
        /\ \E k \in 1..Len(last.item.indices) : last.item.indices[k] < 0) =>
           last.res = Raise("ValueError")
    /\ (/\ last.op = "take"
        /\ ~last.item.allow_fill
        /\ \A k \in 1..Len(last.item.indices) :
              -ArrLen(LastSelf) <= last.item.indices[k]
              /\ last.item.indices[k] < ArrLen(LastSelf)) =>
           LET n == ArrLen(LastSelf)
               row(k) == IF last.item.indices[k] < 0
                         THEN n + last.item.indices[k] + 1
                         ELSE last.item.indices[k] + 1
           IN  /\ last.res.ok
               /\ last.res.val.tokens = LastSelf.tokens
               /\ Len(last.res.val.begin_token) = Len(last.item.indices)
               /\ Len(last.res.val.end_token) = Len(last.item.indices)
               /\ \A k \in 1..Len(last.item.indices) :
                     /\ last.res.val.begin_token[k] = LastSelf.begin_token[row(k)]
                     /\ last.res.val.end_token[k] = LastSelf.end_token[row(k)]

\* C6: the outcomes above in every state, and no call of take, failed or
\* not, changes an existing array (tokens reference, begin_token, end_token).
C6_TakeFillNegative ==
    /\ []C6_TakeOutcomes
    /\ [][last'.op = "take" => arrays' = arrays]_vars

\* C6's case: take with allow_fill=True whose indices hold row 0 and a
\* negative index has raised.
C6_Witness ==
    /\ last.op = "take"
    /\ last.item.allow_fill
    /\ last.item.indices = <<0, -1>>
    /\ ArrLen(LastSelf) = 2
    /\ last.res = Raise("ValueError")

\* C7 as stated: get(i) returns the single-row view of row i when 0 <= i < n
\* and raises IndexError (IndexOutOfRange) for every other integer i, every
\* negative i included.
C7_AsStated ==
    last.op = "get" =>
        IF 0 <= last.item /\ last.item < ArrLen(LastSelf)
        THEN /\ last.res.ok
             /\ last.res.val.begin_token = LastSelf.begin_token[last.item + 1]
             /\ last.res.val.end_token = LastSelf.end_token[last.item + 1]
        ELSE last.res = Raise("IndexError")

\* C7 (amended): get(i) is the single-row view TokenSpan(tokens,
\* begin_token[r], end_token[r]) of row r, with r = i when 0 <= i < n and
\* r = n + i when -n <= i < 0, and raises IndexError when i >= n or i < -n.
\* On a valid array the view of a row is returned unless the row's
\* begin_token is len(tokens), which raises IndexError.
C7_GetIndexing ==
    last.op = "get" =>
        LET n == ArrLen(LastSelf)
            r == IF last.item < 0 THEN n + last.item + 1 ELSE last.item + 1
        IN  IF -n <= last.item /\ last.item < n
            THEN /\ last.res = TokenSpan(LastSelf.tokens, LastSelf.begin_token[r],
                                         LastSelf.end_token[r])
                 /\ (ValidArr(LastSelf) /\ LastSelf.begin_token[r] < TableLen(LastSelf.tokens)) =>
                       /\ last.res.ok
                       /\ last.res.val.tokens = LastSelf.tokens
                       /\ last.res.val.begin_token = LastSelf.begin_token[r]
                       /\ last.res.val.end_token = LastSelf.end_token[r]
                 /\ (ValidArr(LastSelf) /\ LastSelf.begin_token[r] = TableLen(LastSelf.tokens)) =>
                       last.res = Raise("IndexError")
            ELSE last.res = Raise("IndexError")

\* C7's case: get(-1) on an array of two different rows returns the last row.
C7_Witness ==
    /\ last.op = "get"
    /\ last.item = -1
    /\ ArrLen(LastSelf) = 2
    /\ ValidArr(LastSelf)
    /\ LastSelf.end_token[1] /= LastSelf.end_token[2]
    /\ last.res.ok
    /\ last.res.val.begin_token = LastSelf.begin_token[2]
    /\ last.res.val.end_token = LastSelf.end_token[2]

----------------------------------------------------------------------------
(* Properties of iob_to_spans *)

\* The end (0-based, exclusive) of the entity that begins at token b: the
\* smallest index greater than b whose tag is O or B, or the number of tokens
\* if there is none.
RunEnd(tags, b) ==
    LET closers == {e \in (b + 1)..(Len(tags) - 1) : tags[e + 1] \in {"O", "B"}}
    IN  IF closers = {} THEN Len(tags)
        ELSE CHOOSE e \in closers : \A f \in closers : e <= f

\* The entities of a tag column: one <<b, RunEnd(b)>> per token b tagged B,
\* in ascending order of b.
ExpectedSpans(tags) ==
    LET begins == MaskSelect(Positions(Len(tags)), [j \in 1..Len(tags) |-> tags[j] = "B"])
    IN  [k \in 1..Len(begins) |-> <<begins[k], RunEnd(tags, begins[k])>>]

\* No entity of the tag column runs to the end of the table.
RunsClosed(tags) ==
    \A b \in 0..(Len(tags) - 1) : tags[b + 1] = "B" => RunEnd(tags, b) < Len(tags)

\* The <<begin_token, end_token>> pairs of the returned token_span column.
ResultSpans ==
    LET spans == result.val["token_span"]
    IN  [k \in 1..ArrLen(spans) |-> <<spans.begin_token[k], spans.end_token[k]>>]

\* C8 as stated: on every tag column over {B, I, O} of a table that has the
\* ent_type column, iob_to_spans returns exactly one entity [b, e) per token
\* b tagged B, e being the smallest index greater than b tagged O or B, or n
\* if there is none, in ascending order of b; tags [O,B,I,O,B,O] give [1,3)
\* and [4,5).
C8_AsStated ==
    (pc = "done" /\ "ent_type" \in token_features.columns) =>
        /\ result.ok
        /\ ResultSpans = ExpectedSpans(token_features.tags)

\* What holds of the code in place of C8: the entities are decoded as C8
\* says when no entity runs to the end of the table, and the call raises
\* IndexError when one does.
IobDecodesClosedRuns ==
    (pc = "done" /\ "ent_type" \in token_features.columns) =>
        IF RunsClosed(token_features.tags)
        THEN /\ result.ok
             /\ ResultSpans = ExpectedSpans(token_features.tags)
             /\ (token_features.tags = <<"O", "B", "I", "O", "B", "O">>
                    => ResultSpans = << <<1, 3>>, <<4, 5>> >>)
        ELSE result = Raise("IndexError")

\* The tag column of the worked example has been decoded.
IobExampleDecoded ==
    /\ pc = "done"
    /\ token_features.tags = <<"O", "B", "I", "O", "B", "O">>
    /\ result.ok

\* C9 as stated: a lookahead past the last token counts as tag O, so an
\* entity that runs to the end of the table (a B at the last token, or a B
\* followed by I tags up to the end) is returned as [b, n) and no error is
\* raised.
C9_AsStated ==
    (/\ pc = "done"
     /\ "ent_type" \in token_features.columns
     /\ ~RunsClosed(token_features.tags)) =>
        /\ result.ok
        /\ \A b \in 0..(Len(token_features.tags) - 1) :
              (token_features.tags[b + 1] = "B"
                  /\ RunEnd(token_features.tags, b) = Len(token_features.tags))
              => \E k \in 1..Len(ResultSpans) :
                    ResultSpans[k] = <<b, Len(token_features.tags)>>

\* C10 as stated, on the tag columns where no entity runs to the end of the
\* table: every returned entity carries the value that the column named by
\* entity_type_col_name holds at the row of its B tag, and with
\* entity_type_col_name = None the call succeeds and returns the token_span
\* column alone.
C10_AsStated ==
    (pc = "done" /\ RunsClosed(token_features.tags)) =>
        /\ result.ok
        /\ IF entity_type_col_name = None
           THEN DOMAIN result.val = {"token_span"}
           ELSE /\ DOMAIN result.val = {"token_span", entity_type_col_name}
                /\ Len(result.val[entity_type_col_name]) = Len(ResultSpans)
                /\ \A k \in 1..Len(ResultSpans) :
                      result.val[entity_type_col_name][k]
                          = TypeValue(entity_type_col_name, ResultSpans[k][1])

----------------------------------------------------------------------------
(* Properties of iob_to_spans: order of the output and the while loop *)

\* The closed entities in discovery order: the order of pd.concat(df_list).
Discovered ==
    LET rows == Flatten(df_list)
    IN  [k \in 1..Len(rows) |-> <<rows[k].begin, rows[k].end>>]

\* C15: the entities iob_to_spans returns are the closed entities ordered by
\* begin token offset ascending, whatever the round in which each was closed
\* (a long entity that starts earlier precedes a short one that starts
\* later), and two entities of equal begin keep their discovery order.  The
\* begins of the entities of one table are distinct, so the order is strict.
C15_SortedByBegin ==
    (pc = "done" /\ result.ok) =>
        /\ Len(ResultSpans) = Len(Discovered)
        /\ {ResultSpans[k] : k \in 1..Len(ResultSpans)}
              = {Discovered[k] : k \in 1..Len(Discovered)}
        /\ \A i, j \in 1..Len(ResultSpans) :
              i < j => ResultSpans[i][1] <= ResultSpans[j][1]
        /\ \A p, q \in 1..Len(Discovered) :
              (p < q /\ Discovered[p][1] = Discovered[q][1]) =>
                 \E i, j \in 1..Len(ResultSpans) :
                    /\ i < j
                    /\ ResultSpans[i] = Discovered[p]
                    /\ ResultSpans[j] = Discovered[q]
        /\ \A i, j \in 1..Len(ResultSpans) :
              i /= j => ResultSpans[i][1] /= ResultSpans[j][1]

\* C15's case: tags [B,I,I,O,B,O]: the entity [4,5) is closed in the first
\* round and [0,3) in the third, and the output has [0,3) first.
C15_Witness ==
    /\ pc = "done"
    /\ result.ok
    /\ token_features.tags = <<"B", "I", "I", "O", "B", "O">>
    /\ Discovered = << <<4, 5>>, <<0, 3>> >>
    /\ ResultSpans = << <<0, 3>>, <<4, 5>> >>

\* The length in tokens of the longest entity of a tag column, 0 if it has none.
MaxEntityLen(tags) ==
    LET lens == {RunEnd(tags, b) - b : b \in {b \in 0..(Len(tags) - 1) : tags[b + 1] = "B"}}
    IN  IF lens = {} THEN 0 ELSE CHOOSE l \in lens : \A m \in lens : m <= l

\* C16 as stated: on every tag column over {B, I, O} of a table that has the
\* ent_type column, the call does not stop before the loop has ended, and
\* the loop ends with no active prefix left after at most (length of the
\* longest entity) rounds.
C16_AsStated ==
    "ent_type" \in token_features.columns =>
        /\ pc /= "done" => ENABLED NextIob
        /\ pc = "done" =>
              /\ result.ok
              /\ Len(entity_prefixes) = 0
              /\ rounds <= MaxEntityLen(token_features.tags)

\* What holds of the code in place of C16, the end of the loop: on the tag
\* columns where no entity runs to the end of the table the loop ends with
\* no active prefix left after exactly (length of the longest entity)
\* rounds; on the others the lookahead raises IndexError with prefixes
\* still active or before the loop starts.
IobLoopEndsClosedRuns ==
    "ent_type" \in token_features.columns =>
        /\ pc /= "done" => ENABLED NextIob
        /\ pc = "done" =>
              IF RunsClosed(token_features.tags)
              THEN /\ result.ok
                   /\ Len(entity_prefixes) = 0
                   /\ rounds = MaxEntityLen(token_features.tags)
              ELSE result = Raise("IndexError")

\* What holds of the code in place of C16, the rounds: a round that does not
\* raise moves every active prefix either to the frame appended to df_list,
\* unchanged, or to the next active set with its end increased by exactly
\* one, in order; the active set does not grow.
IobRoundsShrink ==
    [][rounds' = rounds + 1 =>
         /\ Len(df_list') = Len(df_list) + 1
         /\ Len(entity_prefixes') + Len(df_list'[Len(df_list')]) = Len(entity_prefixes)
         /\ Len(entity_prefixes') <= Len(entity_prefixes)
         /\ \A k \in 1..Len(entity_prefixes) :
               \/ \E c \in 1..Len(df_list'[Len(df_list')]) :
                     df_list'[Len(df_list')][c] = entity_prefixes[k]
               \/ \E c \in 1..Len(entity_prefixes') :
                     /\ entity_prefixes'[c].begin = entity_prefixes[k].begin
                     /\ entity_prefixes'[c].end = entity_prefixes[k].end + 1]_vars

\* An entity of three tokens has been closed in the third round.
IobLongEntityClosed ==
    /\ pc = "done"
    /\ result.ok
    /\ rounds = 3
    /\ MaxEntityLen(token_features.tags) = 3

----------------------------------------------------------------------------
(* Properties of TensorArray *)

\* The operands of the last comparison, as ndarrays.
CmpLeft == tensors[tlast.self]._tensor
CmpRight == tensors[tlast.item]._tensor

\* C11 as stated: a comparison (==, <, >, <=, >=) of two TensorArrays of the
\* same shape returns a boolean TensorArray of that shape holding the
\* elementwise result, and a comparison of two TensorArrays of different
\* shapes, shapes that differ only in a dimension of size 1 included, raises
\* (ShapeMismatch).
C11_AsStated ==
    tlast.op \in CompareOps =>
        IF CmpLeft.shape = CmpRight.shape
        THEN /\ tlast.res.ok
             /\ tlast.res.val._tensor.shape = CmpLeft.shape
             /\ tlast.res.val._tensor.data =
                   [p \in 1..Prod(CmpLeft.shape) |->
                       Cmp(tlast.op, CmpLeft.data[p], CmpRight.data[p])]
        ELSE ~tlast.res.ok

\* What holds of the code in place of C11: equal shapes give the elementwise
\* result in that shape; different shapes that broadcast give a result in
\* the broadcast shape and no error; shapes that do not broadcast raise
\* ValueError or TypeError.
TensorCompareBroadcasts ==
    tlast.op \in CompareOps =>
        IF CmpLeft.shape = CmpRight.shape
        THEN /\ tlast.res.ok
             /\ tlast.res.val._tensor.shape = CmpLeft.shape
             /\ tlast.res.val._tensor.data =
                   [p \in 1..Prod(CmpLeft.shape) |->
                       Cmp(tlast.op, CmpLeft.data[p], CmpRight.data[p])]
        ELSE IF BroadcastOk(CmpLeft.shape, CmpRight.shape)
        THEN /\ tlast.res.ok
             /\ tlast.res.val._tensor.shape = BroadcastShape(CmpLeft.shape, CmpRight.shape)
        ELSE tlast.res \in {Raise("ValueError"), Raise("TypeError")}

\* Two TensorArrays of shapes (1, 1) and (1, 2), which differ only in a
\* dimension of size 1, have been compared with <.
TensorCompareBroadcastSeen ==
    /\ tlast.op = "lt"
    /\ CmpLeft.shape = <<1, 1>>
    /\ CmpRight.shape = <<1, 2>>
    /\ tlast.res.ok

\* The TensorArrays handed to the last concat, in order.
LastTensorConcat == [k \in 1..Len(tlast.item) |-> tensors[tlast.item[k]]]

\* C12 as stated: concat of a non-empty list of TensorArrays of one per-row
\* shape succeeds; the result has the sum of the input lengths as its
\* length, the per-row shape of the inputs, and the rows of the inputs in
\* input order.
C12_AsStated ==
    (/\ tlast.op = "concat"
     /\ Len(LastTensorConcat) > 0
     /\ \A k \in 1..Len(LastTensorConcat) :
           Tail(LastTensorConcat[k]._tensor.shape) = Tail(LastTensorConcat[1]._tensor.shape)) =>
        /\ tlast.res.ok
        /\ tlast.res.val._tensor.shape =
              <<Len(Flatten([k \in 1..Len(LastTensorConcat) |->
                                [r \in 1..TensorLen(LastTensorConcat[k]) |-> r]]))>>
              \o Tail(LastTensorConcat[1]._tensor.shape)
        /\ tlast.res.val._tensor.data =
              Flatten([k \in 1..Len(LastTensorConcat) |-> LastTensorConcat[k]._tensor.data])

\* What holds of the code in place of C12: every concat raises TypeError.
TensorConcatRaises == tlast.op = "concat" => tlast.res = Raise("TypeError")

\* Two TensorArrays of one per-row shape have been handed to concat.
TensorConcatSeen ==
    /\ tlast.op = "concat"
    /\ Len(LastTensorConcat) = 2
    /\ tlast.item[1] /= tlast.item[2]
    /\ Tail(LastTensorConcat[1]._tensor.shape) = Tail(LastTensorConcat[2]._tensor.shape)

\* C13 as stated: with every index in [0, n), take(indices, allow_fill=True)
\* succeeds and returns the rows take(indices, allow_fill=False) returns, in
\* the same order.
C13_AsStated ==
    (/\ tlast.op = "take"
     /\ tlast.item.allow_fill
     /\ tlast.item.fill_value = None
     /\ \A k \in 1..Len(tlast.item.indices) :
           0 <= tlast.item.indices[k]
           /\ tlast.item.indices[k] < TensorLen(tensors[tlast.self])) =>
        /\ tlast.res.ok
        /\ tlast.res = TensorTake(tensors[tlast.self], tlast.item.indices, FALSE, None)

\* What holds of the code in place of C13: take with allow_fill=True raises
\* NotImplementedError whatever the indices are, and take with
\* allow_fill=False, no fill_value and indices in [0, n) returns the rows
\* the indices name, in that order.
TensorTakeFillRaises ==
    /\ (tlast.op = "take" /\ tlast.item.allow_fill) =>
          tlast.res = Raise("NotImplementedError")
    /\ (/\ tlast.op = "take"
        /\ ~tlast.item.allow_fill
        /\ tlast.item.fill_value = None
        /\ \A k \in 1..Len(tlast.item.indices) :
              0 <= tlast.item.indices[k]
              /\ tlast.item.indices[k] < TensorLen(tensors[tlast.self])) =>
           LET src == tensors[tlast.self]._tensor
               row_size == Prod(Tail(src.shape))
           IN  /\ tlast.res.ok
               /\ tlast.res.val._tensor.shape = <<Len(tlast.item.indices)>> \o Tail(src.shape)
               /\ \A k \in 1..Len(tlast.item.indices), e \in 1..row_size :
                     tlast.res.val._tensor.data[(k - 1) * row_size + e]
                         = src.data[tlast.item.indices[k] * row_size + e]

----------------------------------------------------------------------------
(* Properties of copy *)

\* The rows of container i as a client reads them.
RowsOf(h, o) ==
    IF o.kind = "TokenSpanArray" THEN <<h[o.begin_token], h[o.end_token]>>
    ELSE <<h[o._tensor]>>

\* Container j is a copy of container i or the other way round.
CopyRelated(i, j) == objs[j].copy_of = i \/ objs[i].copy_of = j

\* C14, the copy: the container copy() has just returned equals its source
\* row for row; every copy references buffers that its source does not, and
\* a TokenSpanArray copy the tokens object of its source.
C14_CopyResult ==
    /\ hlast.op = "copy" =>
          RowsOf(heap, objs[hlast.res.val]) = RowsOf(heap, objs[hlast.self])
    /\ \A j \in 1..Len(objs) :
          objs[j].copy_of /= 0 =>
             /\ objs[j].kind = objs[objs[j].copy_of].kind
             /\ Addrs(objs[j]) \cap Addrs(objs[objs[j].copy_of]) = {}
             /\ objs[j].tokens = objs[objs[j].copy_of].tokens

\* C14: the above in every state, and replacing an element of an array of a
\* container changes no row of a container that is its copy or its source.
C14_CopyIndependent ==
    /\ []C14_CopyResult
    /\ [][hlast'.op = "setitem" =>
             \A j \in 1..Len(objs) :
                CopyRelated(hlast'.self, j) => RowsOf(heap', objs[j]) = RowsOf(heap, objs[j])]_vars

\* C14's case: an element of a two-row TokenSpanArray copy has been
\* replaced, and the copy now differs from its source.
C14_Witness ==
    /\ hlast.op = "setitem"
    /\ Len(objs) = 2
    /\ objs[2].kind = "TokenSpanArray"
    /\ objs[2].copy_of = 1
    /\ hlast.self = 2
    /\ Len(heap[objs[1].begin_token].data) = 2
    /\ RowsOf(heap, objs[2]) /= RowsOf(heap, objs[1])

\* A TensorArray copy whose source has had an element replaced since.
TensorCopyDiverged ==
    /\ hlast.op = "setitem"
    /\ Len(objs) = 2
    /\ objs[2].kind = "TensorArray"
    /\ objs[2].copy_of = 1
    /\ hlast.self = 1
    /\ heap[objs[2]._tensor] /= heap[objs[1]._tensor]

----------------------------------------------------------------------------
(* Properties of concurrent reads of begin and end *)

\* The derived offsets of an array as a function of tokens, begin_token and
\* end_token alone.
PureBegin(a) == ComputeBegin(a)
PureEnd(a) == ComputeEnd(a, ComputeBegin(a))

\* C17, the values: every read of begin or end that has ended has the
\* outcome of the pure derivation from (tokens, begin_token, end_token), and
\* a cached value is that of the pure derivation, never an end sequence
\* whose zero-length rows still hold the gathered token end.
C17_ReadsArePure ==
    Len(arrays) > 0 =>
        /\ \A t \in Threads :
              readers[t].pc = "done" =>
                 readers[t].res = IF readers[t].prop = "begin"
                                  THEN PureBegin(arrays[1]) ELSE PureEnd(arrays[1])
        /\ arrays[1].memo_begin /= Unset =>
              /\ PureBegin(arrays[1]).ok
              /\ arrays[1].memo_begin = Stored(PureBegin(arrays[1]).val)
        /\ arrays[1].memo_end /= Unset =>
              /\ PureEnd(arrays[1]).ok
              /\ arrays[1].memo_end = Stored(PureEnd(arrays[1]).val)

\* C17: the above in every state of every interleaving of the readers, and
\* a value that is cached stays the cached value.
C17_ConcurrentReads ==
    /\ []C17_ReadsArePure
    /\ [][Len(arrays) > 0 =>
            /\ arrays[1].memo_begin /= Unset => arrays'[1].memo_begin = arrays[1].memo_begin
            /\ arrays[1].memo_end /= Unset => arrays'[1].memo_end = arrays[1].memo_end]_vars

\* C17's case: on an array with a zero-length row and a longer row, one
\* thread has read end from the cache while the other, which found the
\* cache empty, is about to store the end sequence it computed itself.
C17_Witness ==
    /\ Len(arrays) > 0
    /\ \E k \in 1..ArrLen(arrays[1]) : arrays[1].end_token[k] = arrays[1].begin_token[k]
    /\ \E k \in 1..ArrLen(arrays[1]) : arrays[1].end_token[k] > arrays[1].begin_token[k]
    /\ readers[1].pc = "done" /\ readers[1].prop = "end" /\ readers[1].res.ok
    /\ readers[2].pc = "end_setattr"
    /\ arrays[1].memo_end /= Unset

====
